---- MODULE Spec2Model ----
(***************************************************************************)
(* The notification engine and settings resolver of gofiber-reddit         *)
(* (application/serviceimpl/notification_service_impl.go) together with    *)
(* the late binding of the push collaborator done by the composition root  *)
(* (Container.initServices).                                               *)
(*                                                                         *)
(* Every service method is an operator from the storage contents and the   *)
(* call's arguments to the new storage contents, the returned error and    *)
(* the returned response; the actions apply these operators to the stored  *)
(* state.  The repositories behind the service are not part of the         *)
(* excerpted source; they are modelled from section 6 of the               *)
(* specification.  Timestamps are represented by insertion order.          *)
(***************************************************************************)
EXTENDS Integers, Sequences, FiniteSets, TLC

VARIABLES notifs, nextId, settings, pushService, pushed, ret, calls

vars == <<notifs, nextId, settings, pushService, pushed, ret, calls>>

(* ------------------------------ bounds --------------------------------- *)

\* Number of notification ids uuid.New() hands out in one run.
MaxNotifs == 2

(* ------------------------------ domains -------------------------------- *)

Users == {"alice", "bob"}

\* The requests served at the same time, each by a goroutine of its own.
Callers == {"c1", "c2", "c3"}

\* reply, mention, vote and follow are the mapped types; award is a type
\* outside the mapping.
NotifTypes == {"reply", "mention", "vote", "follow", "award"}

\* message, optional post reference, optional comment reference
Contents ==
  { [Message |-> "m1", PostID |-> "nil", CommentID |-> "nil"],
    [Message |-> "m2", PostID |-> "p1", CommentID |-> "c1"] }

Toggles == {"Replies", "Mentions", "Votes", "Follows", "EmailNotifications"}

\* dto.NotificationSettingsRequest: a toggle is present (non-nil pointer)
\* exactly when it is in the domain of the request.
AllRequests == UNION { [S -> BOOLEAN] : S \in SUBSET Toggles }

\* The requests the preference-gate specification issues.
Requests ==
  { [Votes |-> TRUE],
    [Replies |-> FALSE, EmailNotifications |-> TRUE] }

\* The request the specification with failing storage issues.
VoteRequests == { [Votes |-> TRUE] }

\* The requests that name at most one toggle.
UnitRequests == { r \in AllRequests : Cardinality(DOMAIN r) <= 1 }

\* The events the specifications raise notifications for: a reply to a
\* comment, a follow, a vote on a post.
Events ==
  { [SenderID |-> "bob", Type |-> "reply",
     Content |-> [Message |-> "m2", PostID |-> "p1", CommentID |-> "c1"]],
    [SenderID |-> "alice", Type |-> "follow",
     Content |-> [Message |-> "m1", PostID |-> "nil", CommentID |-> "nil"]],
    [SenderID |-> "alice", Type |-> "vote",
     Content |-> [Message |-> "m1", PostID |-> "nil", CommentID |-> "nil"]] }

Min(a, b) == IF a < b THEN a ELSE b

\* The events raised over a storage whose calls may fail.
FewEvents == { e \in Events : e.Type \in {"reply", "vote"} }

\* f, the storage calls of one invocation that fail, by position among its
\* k calls.  Without injected failures none fails; with them none or one
\* fails, or both calls of a settings endpoint.
Faults(inject, k) ==
  IF inject THEN {{}} \cup {{i} : i \in 1..k} \cup {1..Min(k, 2)} ELSE {{}}

Offsets == {0, 1}
Limits == {1, 2}

\* the pages the list endpoints are called for: <<offset, limit>>
Pagings == {<<0, 2>>, <<1, 1>>}

\* the storage contents the service works on
DB == [notifs |-> notifs, nextId |-> nextId, settings |-> settings]

(* ------------------- notification repository (storage) ----------------- *)

RECURSIVE Reverse(_)
Reverse(s) == IF s = <<>> THEN <<>> ELSE Append(Reverse(Tail(s)), Head(s))

Page(s, offset, limit) ==
  IF offset >= Len(s) THEN <<>>
  ELSE SubSeq(s, offset + 1, Min(Len(s), offset + limit))

\* get-by-id: the position of the row, 0 when absent
GetByID(ns, id) ==
  LET hits == {i \in 1..Len(ns) : ns[i].ID = id}
  IN  IF hits = {} THEN 0 ELSE CHOOSE i \in hits : TRUE

\* list-by-user(offset, limit), newest first
ListByUser(ns, userID, offset, limit) ==
  LET Mine(n) == n.UserID = userID
  IN  Page(Reverse(SelectSeq(ns, Mine)), offset, limit)

\* list-unread-by-user(offset, limit), newest first
ListUnreadByUser(ns, userID, offset, limit) ==
  LET MineUnread(n) == n.UserID = userID /\ ~n.IsRead
  IN  Page(Reverse(SelectSeq(ns, MineUnread)), offset, limit)

CountByUser(ns, userID) ==
  Cardinality({i \in 1..Len(ns) : ns[i].UserID = userID})

CountUnreadByUser(ns, userID) ==
  Cardinality({i \in 1..Len(ns) : ns[i].UserID = userID /\ ~ns[i].IsRead})

\* mark-read(id)
RepoMarkAsRead(ns, id) ==
  [i \in 1..Len(ns) |->
     IF ns[i].ID = id THEN [ns[i] EXCEPT !.IsRead = TRUE] ELSE ns[i]]

\* mark-all-read(user)
RepoMarkAllAsRead(ns, userID) ==
  [i \in 1..Len(ns) |->
     IF ns[i].UserID = userID THEN [ns[i] EXCEPT !.IsRead = TRUE] ELSE ns[i]]

\* delete(id)
RepoDelete(ns, id) ==
  LET Keep(n) == n.ID # id IN SelectSeq(ns, Keep)

\* delete-all-by-user(user)
DeleteAllByUser(ns, userID) ==
  LET Keep(n) == n.UserID # userID IN SelectSeq(ns, Keep)

\* create
RepoCreate(ns, n) == Append(ns, n)

\* dto.NotificationToNotificationResponse copies the row's fields
NotificationToNotificationResponse(n) == n

ToResponses(s) == [i \in 1..Len(s) |-> NotificationToNotificationResponse(s[i])]

(* --------------------- settings repository (storage) ------------------- *)

\* get-by-user: settings[u] holds the stored rows of user u
GetByUserID(st, userID) ==
  IF Len(st[userID]) = 0 THEN [err |-> "not_found", row |-> <<>>]
  ELSE [err |-> "ok", row |-> <<st[userID][1]>>]

\* create: the user reference is unique, a second row is refused
SettingsCreate(st, row) ==
  IF Len(st[row.UserID]) > 0 THEN [err |-> "conflict", st |-> st]
  ELSE [err |-> "ok", st |-> [st EXCEPT ![row.UserID] = <<row>>]]

\* update(user, record): update-with-create-if-missing
SettingsUpdate(st, userID, row) == [st EXCEPT ![userID] = <<row>>]

\* the fixed defaults: replies, mentions, follows on; votes, email off
RepoDefaults(userID) ==
  [UserID |-> userID, Replies |-> TRUE, Mentions |-> TRUE, Votes |-> FALSE,
   Follows |-> TRUE, EmailNotifications |-> FALSE]

\* the fixed type -> toggle mapping; a type outside it always notifies
ToggleOf(row, notifType) ==
  CASE notifType = "reply"   -> row.Replies
    [] notifType = "mention" -> row.Mentions
    [] notifType = "vote"    -> row.Votes
    [] notifType = "follow"  -> row.Follows
    [] OTHER                 -> TRUE

\* the settings check: resolve the recipient's settings, creating the
\* defaults if absent, then consult the toggle matching the type.  When the
\* storage fails the error is returned and the boolean beside it is failVal.
ShouldNotify(st, userID, notifType, failed, failVal) ==
  IF failed
  THEN [notify |-> failVal, err |-> "storage", st |-> st, newRow |-> FALSE]
  ELSE LET got == GetByUserID(st, userID)
       IN  IF got.err = "ok"
           THEN [notify |-> ToggleOf(got.row[1], notifType), err |-> "ok",
                 st |-> st, newRow |-> FALSE]
           ELSE [notify |-> ToggleOf(RepoDefaults(userID), notifType),
                 err |-> "ok",
                 st |-> SettingsCreate(st, RepoDefaults(userID)).st,
                 newRow |-> TRUE]

\* dto.NotificationSettingsToResponse copies the row's fields
NotificationSettingsToResponse(row) == row

(* ------------------------- service: queries ---------------------------- *)

\* the value a handler returns beside a non-nil error
\* fault: a storage call of the invocation failed for a reason other than
\* the entity being absent
Failed(db, e) ==
  [db |-> db, err |-> e, resp |-> <<>>, fault |-> (e = "storage")]

Ok(db, resp) == [db |-> db, err |-> "ok", resp |-> <<resp>>, fault |-> FALSE]

\* a slip of the response: the two counts exchanged
GetNotificationsResponseSwapped(notifications, unreadCount, count, offset, limit) ==
  [Notifications |-> ToResponses(notifications),
   UnreadCount   |-> count,
   Meta          |-> [Total |-> unreadCount, Offset |-> offset, Limit |-> limit]]

GetNotificationsResponse(notifications, unreadCount, count, offset, limit) ==
  [Notifications |-> ToResponses(notifications),
   UnreadCount   |-> unreadCount,
   Meta          |-> [Total |-> count, Offset |-> offset, Limit |-> limit]]

\* f: the storage calls of this invocation that fail, by position
GetNotifications(db, userID, offset, limit, f) ==
  IF 1 \in f THEN Failed(db, "storage")
  ELSE IF 2 \in f THEN Failed(db, "storage")
  ELSE IF 3 \in f THEN Failed(db, "storage")
  ELSE Ok(db, GetNotificationsResponse(
                ListByUser(db.notifs, userID, offset, limit),
                CountUnreadByUser(db.notifs, userID),
                CountByUser(db.notifs, userID), offset, limit))

GetUnreadNotificationsResponse(notifications, unreadCount, offset, limit) ==
  [Notifications |-> ToResponses(notifications),
   UnreadCount   |-> unreadCount,
   Meta          |-> [Total |-> unreadCount, Offset |-> offset, Limit |-> limit]]

GetUnreadNotifications(db, userID, offset, limit, f) ==
  IF 1 \in f THEN Failed(db, "storage")
  ELSE IF 2 \in f THEN Failed(db, "storage")
  ELSE Ok(db, GetUnreadNotificationsResponse(
                ListUnreadByUser(db.notifs, userID, offset, limit),
                CountUnreadByUser(db.notifs, userID), offset, limit))

\* a slip of the ownership check: the caller is compared with the sender
IsOwnerBySender(notification, userID) == notification.SenderID = userID

\* the ownership check of GetNotification, MarkAsRead, DeleteNotification
IsOwner(notification, userID) == notification.UserID = userID

GetNotification(db, notificationID, userID, f) ==
  LET i == GetByID(db.notifs, notificationID)
  IN  IF 1 \in f THEN Failed(db, "storage")
      ELSE IF i = 0 THEN Failed(db, "not_found")
      ELSE IF ~IsOwner(db.notifs[i], userID) THEN Failed(db, "unauthorized")
      ELSE Ok(db, NotificationToNotificationResponse(db.notifs[i]))

GetUnreadCount(db, userID, f) ==
  IF 1 \in f THEN Failed(db, "storage")
  ELSE Ok(db, CountUnreadByUser(db.notifs, userID))

(* ------------------------ service: mutations --------------------------- *)

\* a slip of MarkAsRead: marking a notification that is already read is
\* refused
MarkAsReadOnce(db, notificationID, userID, f) ==
  LET i == GetByID(db.notifs, notificationID)
  IN  IF 1 \in f THEN Failed(db, "storage")
      ELSE IF i = 0 THEN Failed(db, "not_found")
      ELSE IF ~IsOwner(db.notifs[i], userID) THEN Failed(db, "unauthorized")
      ELSE IF db.notifs[i].IsRead THEN Failed(db, "already_read")
      ELSE IF 2 \in f THEN Failed(db, "storage")
      ELSE Ok([db EXCEPT !.notifs = RepoMarkAsRead(@, notificationID)], "nil")

\* a slip of the handler: the flag is flipped instead of set
MarkAsReadToggle(db, notificationID, userID, f) ==
  LET i == GetByID(db.notifs, notificationID)
  IN  IF 1 \in f THEN Failed(db, "storage")
      ELSE IF i = 0 THEN Failed(db, "not_found")
      ELSE IF ~IsOwner(db.notifs[i], userID) THEN Failed(db, "unauthorized")
      ELSE IF 2 \in f THEN Failed(db, "storage")
      ELSE Ok([db EXCEPT !.notifs[i].IsRead = ~@], "nil")

MarkAsRead(db, notificationID, userID, f) ==
  LET i == GetByID(db.notifs, notificationID)
  IN  IF 1 \in f THEN Failed(db, "storage")
      ELSE IF i = 0 THEN Failed(db, "not_found")
      ELSE IF ~IsOwner(db.notifs[i], userID) THEN Failed(db, "unauthorized")
      ELSE IF 2 \in f THEN Failed(db, "storage")
      ELSE Ok([db EXCEPT !.notifs = RepoMarkAsRead(@, notificationID)], "nil")

MarkAllAsRead(db, userID, f) ==
  IF 1 \in f THEN Failed(db, "storage")
  ELSE Ok([db EXCEPT !.notifs = RepoMarkAllAsRead(@, userID)], "nil")

DeleteNotification(db, notificationID, userID, f) ==
  LET i == GetByID(db.notifs, notificationID)
  IN  IF 1 \in f THEN Failed(db, "storage")
      ELSE IF i = 0 THEN Failed(db, "not_found")
      ELSE IF ~IsOwner(db.notifs[i], userID) THEN Failed(db, "unauthorized")
      ELSE IF 2 \in f THEN Failed(db, "storage")
      ELSE Ok([db EXCEPT !.notifs = RepoDelete(@, notificationID)], "nil")

DeleteAllNotifications(db, userID, f) ==
  IF 1 \in f THEN Failed(db, "storage")
  ELSE Ok([db EXCEPT !.notifs = DeleteAllByUser(@, userID)], "nil")

(* ------------------------- service: settings --------------------------- *)

\* a slip of the defaults: votes on
DefaultSettingsVotesOn(userID) ==
  [UserID |-> userID, Replies |-> TRUE, Mentions |-> TRUE, Votes |-> TRUE,
   Follows |-> TRUE, EmailNotifications |-> FALSE]

\* defaultSettings of GetSettings
DefaultSettings(userID) ==
  [UserID |-> userID, Replies |-> TRUE, Mentions |-> TRUE, Votes |-> FALSE,
   Follows |-> TRUE, EmailNotifications |-> FALSE]

\* Any error of the lookup, absent row or failed storage, takes the
\* create-defaults branch.
GetSettings(db, userID, f) ==
  LET got == IF 1 \in f THEN [err |-> "storage", row |-> <<>>]
             ELSE GetByUserID(db.settings, userID)
      made == IF 2 \in f THEN [err |-> "storage", st |-> db.settings]
              ELSE SettingsCreate(db.settings, DefaultSettings(userID))
  IN  IF got.err # "ok"
      THEN IF made.err # "ok"
           THEN [db |-> db, err |-> made.err, resp |-> <<>>, fault |-> TRUE]
           ELSE [db |-> [db EXCEPT !.settings = made.st], err |-> "ok",
                 resp |-> <<NotificationSettingsToResponse(DefaultSettings(userID))>>,
                 fault |-> (1 \in f)]
      ELSE [db |-> db, err |-> "ok",
            resp |-> <<NotificationSettingsToResponse(got.row[1])>>,
            fault |-> FALSE]

\* &models.NotificationSettings{UserID: userID}: every toggle is Go's zero
\* value
EmptySettings(userID) ==
  [UserID |-> userID, Replies |-> FALSE, Mentions |-> FALSE, Votes |-> FALSE,
   Follows |-> FALSE, EmailNotifications |-> FALSE]

\* only the fields present in the request overwrite
ApplyRequest(row, req) ==
  [k \in DOMAIN row |-> IF k \in DOMAIN req THEN req[k] ELSE row[k]]

UpdateSettings(db, userID, req, f) ==
  LET got == IF 1 \in f THEN [err |-> "storage", row |-> <<>>]
             ELSE GetByUserID(db.settings, userID)
      base == IF got.err # "ok" THEN EmptySettings(userID) ELSE got.row[1]
      new == ApplyRequest(base, req)
  IN  IF 2 \in f
      THEN [db |-> db, err |-> "storage", resp |-> <<>>, fault |-> TRUE]
      ELSE [db |-> [db EXCEPT !.settings = SettingsUpdate(@, userID, new)],
            err |-> "ok",
            resp |-> <<NotificationSettingsToResponse(new)>>,
            fault |-> (1 \in f)]

(* ------------------------- service: creation --------------------------- *)

\* a slip of the constructor: recipient and sender exchanged
NewNotificationSwapped(id, userID, senderID, notifType, content) ==
  [ID |-> id, UserID |-> senderID, SenderID |-> userID, Type |-> notifType,
   Message |-> content.Message, PostID |-> content.PostID,
   CommentID |-> content.CommentID, IsRead |-> FALSE]

\* models.Notification built by CreateNotification
NewNotification(id, userID, senderID, notifType, content) ==
  [ID |-> id, UserID |-> userID, SenderID |-> senderID, Type |-> notifType,
   Message |-> content.Message, PostID |-> content.PostID,
   CommentID |-> content.CommentID, IsRead |-> FALSE]

\* a slip of the gate: the answer of the settings check is not consulted
GateOpen(shouldNotify) == TRUE

\* a slip of the gate: the early return taken when the check says notify
GateNegated(shouldNotify) == ~shouldNotify

\* shouldNotify, _ := ...; if !shouldNotify { return nil }
Gate(shouldNotify) == shouldNotify

\* The error of the settings check is discarded; the body holds no call to
\* a push collaborator, so push, the deliveries handed to it, is empty.
CreateNotification(db, userID, senderID, notifType, content, f, failVal) ==
  LET sn == ShouldNotify(db.settings, userID, notifType, 1 \in f, failVal)
      checked == [db EXCEPT !.settings = sn.st]
      n == NewNotification(db.nextId, userID, senderID, notifType, content)
  IN  IF ~Gate(sn.notify)
      THEN [db |-> checked, err |-> "ok", resp |-> <<>>, fault |-> (1 \in f),
            newRow |-> sn.newRow, push |-> <<>>]
      ELSE IF 2 \in f
      THEN [db |-> checked, err |-> "storage", resp |-> <<>>, fault |-> TRUE,
            newRow |-> sn.newRow, push |-> <<>>]
      ELSE [db |-> [checked EXCEPT !.notifs = RepoCreate(@, n),
                                   !.nextId = @ + 1],
            err |-> "ok", resp |-> <<>>, fault |-> (1 \in f),
            newRow |-> sn.newRow, push |-> <<>>]

(* ------------------------------ actions -------------------------------- *)

NotifIds == 1..MaxNotifs

\* a request goroutine that is not inside GetSettings
Idle == [pc |-> "idle", user |-> "", err |-> "ok", resp |-> <<>>]

Init ==
  /\ notifs = <<>>
  /\ nextId = 1
  /\ settings = [u \in Users |-> <<>>]
  /\ pushService = FALSE
  /\ pushed = <<>>
  /\ ret = [op |-> "NewNotificationService", user |-> "", id |-> 0, typ |-> "",
            err |-> "ok", fault |-> FALSE, newRow |-> FALSE]
  /\ calls = [c \in Callers |-> Idle]

\* The call's effect on storage and what it returned.  ret keeps the
\* operation, the user it was called for, the notification id it named or
\* created (0: none), the notification type, the error, whether a storage
\* call failed and whether a settings row was inserted.
Return(r, op, userID, id, notifType, newRow) ==
  /\ notifs' = r.db.notifs
  /\ nextId' = r.db.nextId
  /\ settings' = r.db.settings
  /\ ret' = [op |-> op, user |-> userID, id |-> id, typ |-> notifType,
             err |-> r.err, fault |-> r.fault, newRow |-> newRow]
  /\ UNCHANGED calls

\* Container.initServices: NewNotificationService, then SetPushService.
\* Handlers are served once the container is initialized.
initServices ==
  /\ ~pushService
  /\ pushService' = TRUE
  /\ UNCHANGED <<notifs, nextId, settings, pushed, ret, calls>>

DoGetNotifications(inject) ==
  /\ pushService
  /\ \E u \in Users, p \in Pagings, f \in Faults(inject, 3) :
       Return(GetNotifications(DB, u, p[1], p[2], f),
              "GetNotifications", u, 0, "", FALSE)
  /\ UNCHANGED <<pushService, pushed>>

DoGetUnreadNotifications(inject) ==
  /\ pushService
  /\ \E u \in Users, p \in Pagings, f \in Faults(inject, 2) :
       Return(GetUnreadNotifications(DB, u, p[1], p[2], f),
              "GetUnreadNotifications", u, 0, "", FALSE)
  /\ UNCHANGED <<pushService, pushed>>

DoGetNotification(inject) ==
  /\ pushService
  /\ \E id \in NotifIds, u \in Users, f \in Faults(inject, 1) :
       Return(GetNotification(DB, id, u, f), "GetNotification", u, id, "", FALSE)
  /\ UNCHANGED <<pushService, pushed>>

DoGetUnreadCount(inject) ==
  /\ pushService
  /\ \E u \in Users, f \in Faults(inject, 1) :
       Return(GetUnreadCount(DB, u, f), "GetUnreadCount", u, 0, "", FALSE)
  /\ UNCHANGED <<pushService, pushed>>

DoMarkAsRead(inject) ==
  /\ pushService
  /\ \E id \in NotifIds, u \in Users, f \in Faults(inject, 2) :
       Return(MarkAsRead(DB, id, u, f), "MarkAsRead", u, id, "", FALSE)
  /\ UNCHANGED <<pushService, pushed>>

DoMarkAllAsRead(inject) ==
  /\ pushService
  /\ \E u \in Users, f \in Faults(inject, 1) :
       Return(MarkAllAsRead(DB, u, f), "MarkAllAsRead", u, 0, "", FALSE)
  /\ UNCHANGED <<pushService, pushed>>

DoDeleteNotification(inject) ==
  /\ pushService
  /\ \E id \in NotifIds, u \in Users, f \in Faults(inject, 2) :
       Return(DeleteNotification(DB, id, u, f), "DeleteNotification", u, id, "", FALSE)
  /\ UNCHANGED <<pushService, pushed>>

DoDeleteAllNotifications(inject) ==
  /\ pushService
  /\ \E u \in Users, f \in Faults(inject, 1) :
       Return(DeleteAllNotifications(DB, u, f), "DeleteAllNotifications", u, 0, "", FALSE)
  /\ UNCHANGED <<pushService, pushed>>

DoGetSettings(inject) ==
  /\ pushService
  /\ \E u \in Users, f \in Faults(inject, 2) :
       LET r == GetSettings(DB, u, f)
       IN  Return(r, "GetSettings", u, 0, "", r.db.settings # settings)
  /\ UNCHANGED <<pushService, pushed>>

DoUpdateSettings(reqs, inject) ==
  /\ pushService
  /\ \E u \in Users, req \in reqs, f \in Faults(inject, 2) :
       LET r == UpdateSettings(DB, u, req, f)
       IN  Return(r, "UpdateSettings", u, 0, "", Len(settings[u]) = 0 /\ r.err = "ok")
  /\ UNCHANGED <<pushService, pushed>>

\* uuid.New() is drawn from nextId; MaxNotifs caps the ids of one run
DoCreateNotification(events, inject) ==
  /\ pushService
  /\ nextId <= MaxNotifs
  /\ \E u \in Users, e \in events, f \in Faults(inject, 2),
        failVal \in IF inject THEN BOOLEAN ELSE {FALSE} :
       LET r == CreateNotification(DB, u, e.SenderID, e.Type, e.Content,
                                   f, failVal)
       IN  /\ Return(r, "CreateNotification", u,
                     IF r.db.nextId # nextId THEN nextId ELSE 0, e.Type,
                     r.newRow)
           /\ pushed' = pushed \o r.push
  /\ UNCHANGED pushService

\* every endpoint, over a storage whose calls may fail
Next ==
  \/ initServices
  \/ DoGetNotifications(TRUE)
  \/ DoGetUnreadNotifications(TRUE)
  \/ DoGetNotification(TRUE)
  \/ DoGetUnreadCount(TRUE)
  \/ DoMarkAsRead(TRUE)
  \/ DoMarkAllAsRead(TRUE)
  \/ DoDeleteNotification(TRUE)
  \/ DoDeleteAllNotifications(TRUE)
  \/ DoGetSettings(TRUE)
  \/ DoUpdateSettings(VoteRequests, TRUE)
  \/ DoCreateNotification(FewEvents, TRUE)

Spec == Init /\ [][Next]_vars

\* the engine without the settings endpoints, over a storage that works:
\* settings rows come from the settings check of CreateNotification alone
NextEngine ==
  \/ initServices
  \/ DoGetNotifications(FALSE)
  \/ DoGetUnreadNotifications(FALSE)
  \/ DoGetNotification(FALSE)
  \/ DoGetUnreadCount(FALSE)
  \/ DoMarkAsRead(FALSE)
  \/ DoMarkAllAsRead(FALSE)
  \/ DoDeleteNotification(FALSE)
  \/ DoDeleteAllNotifications(FALSE)
  \/ DoCreateNotification(Events, FALSE)

SpecEngine == Init /\ [][NextEngine]_vars

\* the preference gate: the settings endpoints and CreateNotification, over
\* a storage that works
NextGate ==
  \/ initServices
  \/ DoGetSettings(FALSE)
  \/ DoUpdateSettings(Requests, FALSE)
  \/ DoCreateNotification(Events, FALSE)

SpecGate == Init /\ [][NextGate]_vars

\* the settings resolver alone, over a storage that works
NextSettings ==
  \/ initServices
  \/ DoGetSettings(FALSE)
  \/ DoUpdateSettings(UnitRequests, FALSE)

SpecSettings == Init /\ [][NextSettings]_vars

(* ------------------ GetSettings, one storage call a step --------------- *)

\* GetSettings up to the return of notifSettingsRepo.GetByUserID: a hit
\* returns the stored row, any error leads on to the insert of the
\* defaults.
GetSettingsLookup(c) ==
  /\ pushService
  /\ calls[c].pc = "idle"
  /\ \E u \in Users :
       LET got == GetByUserID(settings, u)
       IN  calls' = [calls EXCEPT ![c] =
             IF got.err # "ok"
             THEN [pc |-> "create", user |-> u, err |-> "ok", resp |-> <<>>]
             ELSE [pc |-> "done", user |-> u, err |-> "ok",
                   resp |-> <<NotificationSettingsToResponse(got.row[1])>>]]
  /\ UNCHANGED <<notifs, nextId, settings, pushService, pushed, ret>>

\* GetSettings from notifSettingsRepo.Create on: the error of the insert is
\* returned as it is, otherwise the defaults are returned.
GetSettingsCreate(c) ==
  /\ calls[c].pc = "create"
  /\ LET u == calls[c].user
         made == SettingsCreate(settings, DefaultSettings(u))
     IN  IF made.err # "ok"
         THEN /\ calls' = [calls EXCEPT ![c] =
                   [pc |-> "done", user |-> u, err |-> made.err,
                    resp |-> <<>>]]
              /\ UNCHANGED settings
         ELSE /\ settings' = made.st
              /\ calls' = [calls EXCEPT ![c] =
                   [pc |-> "done", user |-> u, err |-> "ok",
                    resp |-> <<NotificationSettingsToResponse(
                                 DefaultSettings(u))>>]]
  /\ UNCHANGED <<notifs, nextId, pushService, pushed, ret>>

\* the response has been written; the goroutine serves the next request
GetSettingsReturn(c) ==
  /\ calls[c].pc = "done"
  /\ calls' = [calls EXCEPT ![c] = Idle]
  /\ UNCHANGED <<notifs, nextId, settings, pushService, pushed, ret>>

\* GetSettings calls of several requests, interleaved at their storage
\* calls, over a storage that works
NextConcurrent ==
  \/ initServices
  \/ \E c \in Callers : GetSettingsLookup(c)
  \/ \E c \in Callers : GetSettingsCreate(c)
  \/ \E c \in Callers : GetSettingsReturn(c)

SpecConcurrent == Init /\ [][NextConcurrent]_vars

(* ------------------------------ claims --------------------------------- *)

\* the settings the data model ascribes to a user: the stored row, else
\* the fixed defaults
Effective(userID) ==
  IF Len(settings[userID]) = 0
  THEN [UserID |-> userID, Replies |-> TRUE, Mentions |-> TRUE,
        Votes |-> FALSE, Follows |-> TRUE, EmailNotifications |-> FALSE]
  ELSE settings[userID][1]

\* the toggle of the fixed mapping reply -> replies, mention -> mentions,
\* vote -> votes, follow -> follows
Mapped == {"reply", "mention", "vote", "follow"}

ToggleValue(row, notifType) ==
  IF notifType = "reply" THEN row.Replies
  ELSE IF notifType = "mention" THEN row.Mentions
  ELSE IF notifType = "vote" THEN row.Votes
  ELSE row.Follows

\* the stored notifications of a recipient, and the unread ones
Stored(ns, userID) == LET P(n) == n.UserID = userID IN Len(SelectSeq(ns, P))

Unread(ns, userID) ==
  LET P(n) == n.UserID = userID /\ ~n.IsRead IN Len(SelectSeq(ns, P))

\* in every state, for every stored notification and every other user
C1_NoAccess ==
  \A i \in 1..Len(notifs) : \A u \in Users :
    notifs[i].UserID # u =>
      LET id == notifs[i].ID
          g == GetNotification(DB, id, u, {})
          m == MarkAsRead(DB, id, u, {})
          d == DeleteNotification(DB, id, u, {})
      IN  /\ g.err = "unauthorized" /\ g.db = DB /\ g.resp = <<>>
          /\ m.err = "unauthorized" /\ m.db = DB
          /\ d.err = "unauthorized" /\ d.db = DB

\* on every step taken by one of the three calls
C1_Step ==
  (/\ ret'.op \in {"GetNotification", "MarkAsRead", "DeleteNotification"}
   /\ \E i \in 1..Len(notifs) :
        notifs[i].ID = ret'.id /\ notifs[i].UserID # ret'.user)
  => (ret'.err = "unauthorized" /\ notifs' = notifs /\ settings' = settings)

\* C1. Ownership: for every stored notification N with recipient R and every
\* user U other than R, GetNotification(N,U), MarkAsRead(N,U) and
\* DeleteNotification(N,U) each fail with the unauthorized error and leave
\* the storage, and with it every notification's existence and read flag,
\* as it was.
C1_Ownership == []C1_NoAccess /\ [][C1_Step]_vars

\* a user other than the recipient called DeleteNotification on a stored
\* notification, beside another stored notification
C1_Witness ==
  /\ ret.op = "DeleteNotification"
  /\ ret.err = "unauthorized"
  /\ Len(notifs) >= 2
  /\ \E i \in 1..Len(notifs) :
       notifs[i].ID = ret.id /\ notifs[i].UserID # ret.user

\* C2. CreateNotification for a recipient whose toggle matching the type is
\* disabled returns success, adds no notification row, hands nothing to the
\* push collaborator and leaves the recipient's total and unread counts as
\* they were.
C2_DisabledToggle ==
  \A u \in Users, s \in Users, t \in Mapped, c \in Contents :
    ~ToggleValue(Effective(u), t) =>
      LET r == CreateNotification(DB, u, s, t, c, {}, FALSE)
      IN  /\ r.err = "ok"
          /\ r.db.notifs = notifs
          /\ r.push = <<>>
          /\ Stored(r.db.notifs, u) = Stored(notifs, u)
          /\ Unread(r.db.notifs, u) = Unread(notifs, u)
          /\ GetUnreadCount(r.db, u, {}).resp = GetUnreadCount(DB, u, {}).resp

\* a reply notification was raised for a recipient who holds notifications
\* and has switched replies off: the call returned success and created none
C2_Witness ==
  /\ ret.op = "CreateNotification"
  /\ ret.typ = "reply"
  /\ ret.err = "ok"
  /\ ret.id = 0
  /\ Len(settings[ret.user]) = 1
  /\ ~settings[ret.user][1].Replies
  /\ Stored(notifs, ret.user) >= 1
  /\ pushed = <<>>

\* the row CreateNotification is to persist for its arguments
Expected(id, u, s, t, c) ==
  [ID |-> id, UserID |-> u, SenderID |-> s, Type |-> t,
   Message |-> c.Message, PostID |-> c.PostID, CommentID |-> c.CommentID,
   IsRead |-> FALSE]

\* C3. CreateNotification for a recipient whose toggle matching the type is
\* enabled persists exactly one new notification with that recipient, sender,
\* type, message and post/comment references and read=false; the recipient's
\* unread and total counts each rise by one, and a following
\* GetNotifications(recipient, 0, limit >= 1) returns the new notification
\* first.
C3_EnabledToggle ==
  \A u \in Users, s \in Users, t \in Mapped, c \in Contents :
    ToggleValue(Effective(u), t) =>
      LET r == CreateNotification(DB, u, s, t, c, {}, FALSE)
          new == Expected(nextId, u, s, t, c)
      IN  /\ r.err = "ok"
          /\ r.db.notifs = Append(notifs, new)
          /\ Unread(r.db.notifs, u) = Unread(notifs, u) + 1
          /\ Stored(r.db.notifs, u) = Stored(notifs, u) + 1
          /\ GetUnreadCount(r.db, u, {}).resp
               = <<GetUnreadCount(DB, u, {}).resp[1] + 1>>
          /\ \A l \in Limits :
               LET g == GetNotifications(r.db, u, 0, l, {})
               IN  /\ g.err = "ok"
                   /\ g.resp[1].Notifications[1] = new
                   /\ g.resp[1].UnreadCount = Unread(notifs, u) + 1
                   /\ g.resp[1].Meta.Total = Stored(notifs, u) + 1

\* a notification was created for a recipient who already held one: it is
\* stored last, unread, and heads the recipient's first page
C3_Witness ==
  /\ ret.op = "CreateNotification"
  /\ ret.err = "ok"
  /\ ret.id # 0
  /\ Stored(notifs, ret.user) >= 2
  /\ notifs[Len(notifs)].ID = ret.id
  /\ notifs[Len(notifs)].UserID = ret.user
  /\ ~notifs[Len(notifs)].IsRead
  /\ GetNotifications(DB, ret.user, 0, 1, {}).resp[1].Notifications[1].ID = ret.id

\* C4. For a recipient with no stored settings row, CreateNotification first
\* resolves the settings by creating the default row, then gates on the fixed
\* defaults: a notification of type reply, mention or follow is persisted,
\* one of type vote is not, and after the call a settings row with the
\* default values exists for the recipient.
C4_NoRowDefaults ==
  \A u \in Users, s \in Users, t \in Mapped, c \in Contents :
    Len(settings[u]) = 0 =>
      LET r == CreateNotification(DB, u, s, t, c, {}, FALSE)
      IN  /\ r.err = "ok"
          /\ r.db.settings[u] =
               << [UserID |-> u, Replies |-> TRUE, Mentions |-> TRUE,
                   Votes |-> FALSE, Follows |-> TRUE,
                   EmailNotifications |-> FALSE] >>
          /\ \A v \in Users \ {u} : r.db.settings[v] = settings[v]
          /\ t \in {"reply", "mention", "follow"} =>
               r.db.notifs = Append(notifs, Expected(nextId, u, s, t, c))
          /\ t = "vote" => r.db.notifs = notifs

\* a vote notification was raised for a recipient without a settings row:
\* the default row was inserted and no notification was created
C4_Witness ==
  /\ ret.op = "CreateNotification"
  /\ ret.typ = "vote"
  /\ ret.err = "ok"
  /\ ret.newRow
  /\ ret.id = 0
  /\ settings[ret.user] =
       << [UserID |-> ret.user, Replies |-> TRUE, Mentions |-> TRUE,
           Votes |-> FALSE, Follows |-> TRUE, EmailNotifications |-> FALSE] >>

\* C5. Once the composition root has wired a push collaborator into the
\* engine, every CreateNotification call that persists a notification
\* forwards that notification to the push collaborator.
C5_PushForwarded ==
  (pushService /\ ret.op = "CreateNotification" /\ ret.id # 0)
    => \E i \in 1..Len(pushed) : pushed[i].ID = ret.id

\* the fixed defaults of the data model
Defaults(u) ==
  [UserID |-> u, Replies |-> TRUE, Mentions |-> TRUE, Votes |-> FALSE,
   Follows |-> TRUE, EmailNotifications |-> FALSE]

\* C6. Default materialization: GetSettings for a user with no stored row
\* returns replies, mentions, follows on and votes, email off and persists
\* exactly one row with those values; a later GetSettings for the same user
\* returns the identical record and creates no further row.
C6_DefaultMaterialization ==
  \A u \in Users :
    LET r == GetSettings(DB, u, {})
        again == GetSettings(r.db, u, {})
    IN  /\ Len(settings[u]) <= 1
        /\ r.err = "ok"
        /\ Len(settings[u]) = 0 =>
             /\ r.resp = <<Defaults(u)>>
             /\ r.db.settings = [settings EXCEPT ![u] = <<Defaults(u)>>]
        /\ Len(settings[u]) = 1 =>
             /\ r.resp = settings[u]
             /\ r.db = DB
        /\ again.err = "ok"
        /\ again.resp = r.resp
        /\ again.db = r.db

\* GetSettings was called for a user without a row and inserted the
\* default row, beside a row of another user that differs from the defaults
C6_Witness ==
  /\ ret.op = "GetSettings"
  /\ ret.err = "ok"
  /\ ret.newRow
  /\ settings[ret.user] = <<Defaults(ret.user)>>
  /\ \E v \in Users \ {ret.user} :
       Len(settings[v]) = 1 /\ settings[v][1].Votes

\* C7. Settings round-trip: UpdateSettings(U, partial) followed by
\* GetSettings(U) returns each toggle present in the request at its requested
\* value and every absent toggle at the value it had before the update, which
\* for a user with no stored row is its fixed default.
C7_RoundTrip ==
  pushService =>
    \A u \in Users, req \in AllRequests :
      LET prior == Effective(u)
          r == UpdateSettings(DB, u, req, {})
          g == GetSettings(r.db, u, {})
      IN  /\ r.err = "ok"
          /\ g.err = "ok"
          /\ \A k \in Toggles :
               g.resp[1][k] = IF k \in DOMAIN req THEN req[k] ELSE prior[k]

\* C8. For every user U, after any sequence of CreateNotification,
\* MarkAsRead, MarkAllAsRead, DeleteNotification and DeleteAllNotifications
\* calls, GetUnreadCount(U) is the number of stored notifications with
\* recipient U and read=false, and the unreadCount of GetNotifications(U) and
\* of GetUnreadNotifications(U) is that same number.
C8_UnreadCount ==
  \A u \in Users :
    /\ GetUnreadCount(DB, u, {}).err = "ok"
    /\ GetUnreadCount(DB, u, {}).resp = <<Unread(notifs, u)>>
    /\ \A o \in Offsets, l \in Limits :
         LET g == GetNotifications(DB, u, o, l, {})
             n == GetUnreadNotifications(DB, u, o, l, {})
         IN  /\ g.err = "ok" /\ g.resp[1].UnreadCount = Unread(notifs, u)
             /\ n.err = "ok" /\ n.resp[1].UnreadCount = Unread(notifs, u)

\* after a MarkAsRead a user holds a read and an unread notification
C8_Witness ==
  /\ ret.op = "MarkAsRead"
  /\ ret.err = "ok"
  /\ Unread(notifs, ret.user) >= 1
  /\ Stored(notifs, ret.user) > Unread(notifs, ret.user)

\* C9. MarkAsRead is idempotent: for a notification owned by the caller,
\* calling it twice succeeds both times and leaves the same stored state,
\* read=true and every other notification unchanged, as calling it once.
C9_MarkAsReadIdempotent ==
  \A i \in 1..Len(notifs) :
    LET id == notifs[i].ID
        u == notifs[i].UserID
        once == MarkAsRead(DB, id, u, {})
        twice == MarkAsRead(once.db, id, u, {})
    IN  /\ once.err = "ok"
        /\ twice.err = "ok"
        /\ twice.db = once.db
        /\ once.db.notifs = [notifs EXCEPT ![i].IsRead = TRUE]
        /\ once.db.settings = settings

\* the owner marked a notification read; it is read, and another stored
\* notification is still unread
C9_Witness ==
  /\ ret.op = "MarkAsRead"
  /\ ret.err = "ok"
  /\ \E i \in 1..Len(notifs) :
       notifs[i].ID = ret.id /\ notifs[i].UserID = ret.user /\ notifs[i].IsRead
  /\ \E j \in 1..Len(notifs) : notifs[j].ID # ret.id /\ ~notifs[j].IsRead

\* C10. Storage failures propagate: when a storage call of an operation fails
\* for a reason other than the entity being absent, the operation returns
\* that failure to its caller.
C10_FailuresPropagate == ret.fault => ret.err = "storage"

\* C11: in every step of interleaved GetSettings calls no user ends up with
\* more than one settings row, and a call whose insert of the defaults
\* meets a row that another call stored in the meantime returns without
\* error the settings that are stored.
C11_Step ==
  /\ \A u \in Users : Len(settings'[u]) <= 1
  /\ \A c \in Callers :
       ( /\ calls[c].pc = "create"
         /\ calls'[c].pc = "done"
         /\ Len(settings[calls[c].user]) > 0 )
       => /\ calls'[c].err = "ok"
          /\ calls'[c].resp =
               <<NotificationSettingsToResponse(settings'[calls[c].user][1])>>

C11_GetOrCreate == [][C11_Step]_vars

\* C12: in every step a notification that enters storage enters it unread,
\* and a notification that is read before the step and still stored after
\* it is read after it: the flag only ever goes from false to true.
C12_Step ==
  /\ \A j \in 1..Len(notifs') :
       (\A i \in 1..Len(notifs) : notifs[i].ID # notifs'[j].ID)
       => ~notifs'[j].IsRead
  /\ \A i \in 1..Len(notifs), j \in 1..Len(notifs') :
       (notifs[i].ID = notifs'[j].ID /\ notifs[i].IsRead)
       => notifs'[j].IsRead

C12_ReadMonotonic == [][C12_Step]_vars

\* a notification was created, unread, beside a notification that had been
\* marked read before and is read still
C12_Witness ==
  /\ ret.op = "CreateNotification"
  /\ ret.id # 0
  /\ \E j \in 1..Len(notifs) : notifs[j].ID = ret.id /\ ~notifs[j].IsRead
  /\ \E i \in 1..Len(notifs) : notifs[i].ID < ret.id /\ notifs[i].IsRead

====
